---- MODULE Spec2Model ----
(***************************************************************************)
(* Model of ntcore's ListenerStorage (ListenerStorage.cpp): the listener   *)
(* and poller tables, the four category indices, the Notify overloads,     *)
(* the removal algorithm, the queue drain, WaitForListenerQueue and the    *)
(* dispatch thread.                                                        *)
(*                                                                         *)
(* Encoding.  An event mask (unsigned int) is the set of the positions of  *)
(* its 1 bits: a & b is the intersection, a | b the union, a & ~b the      *)
(* difference, and x != 0 is x # {}.  A handle is a positive integer, 0 is *)
(* the invalid handle, and the handle tables give out fresh handles.       *)
(*                                                                         *)
(* Atomicity.  Every facade method takes m_mutex (std::scoped_lock) on     *)
(* entry and keeps it to its return, so a method is one action, enabled    *)
(* when the mutex is free.  WaitForListenerQueue blocks inside the method  *)
(* and is an action to enter and one to leave.  Thread::Main is one action *)
(* per stretch between two points where it holds no lock of its own: the   *)
(* wait, the queue read, the callback lookup (done under the thread's      *)
(* mutex, which the facade methods that touch m_callbacks take through     *)
(* GetThread()), the start of the callback and its return.  The storage's  *)
(* destructor, which stops the thread, is not modelled: m_active stays     *)
(* true and m_stopEvent unset.                                             *)
(***************************************************************************)
EXTENDS Integers, Sequences, FiniteSets, TLC

\* ------------------------------------------------------------- bounds
MaxListeners == 2
MaxPollers == 2
MaxSources == 2
MaxNotify == 2
MaxInfos == 2

\* ------------------------------------------------- event mask constants
\* NT_EVENT_CONNECTED | NT_EVENT_DISCONNECTED (0x02 | 0x04)
NT_EVENT_CONNECTION == {1, 2}
\* NT_EVENT_PUBLISH | NT_EVENT_UNPUBLISH | NT_EVENT_PROPERTIES (0x08|0x10|0x20)
NT_EVENT_TOPIC == {3, 4, 5}
\* NT_EVENT_VALUE_REMOTE | NT_EVENT_VALUE_LOCAL (0x40 | 0x80)
NT_EVENT_VALUE_ALL == {6, 7}
\* 0x100
NT_EVENT_LOGMESSAGE == {8}
\* the literal 0x1ff0000: the log levels of LoggerImpl, bits 16..24
LogLevelBits == 16..24

Listeners == 1..MaxListeners
Pollers == 1..MaxPollers
InvalidHandle == 0

\* finishEvent(mask, &event): what the caller's closure answers for the
\* event.  "none" is the empty std::function, which is never called.
FinishResult(finishEvent, mask, event) ==
    CASE finishEvent = "keep" -> TRUE
      [] finishEvent = "veto" -> FALSE
      [] finishEvent = "keepFirst" -> event.item = 1
      [] OTHER -> TRUE

\* ------------------------------------------------------------- workloads
\* What the callers of one run use: the sources they activate, the flags
\* they notify with, the Notify overloads they call and how often, the
\* payload counts and handle lists, the other methods they call, and what
\* their callbacks do: return, or call RemoveListener on their own listener
\* and return.
Source(finishEvent, mask) == [finishEvent |-> finishEvent, mask |-> mask]

\* the handle lists a Notify call can name: none, one handle, two handles
HandleLists ==
    {<<>>} \cup {<<h>> : h \in Listeners}
           \cup {<<h1, h2>> : h1 \in Listeners, h2 \in Listeners}

PollerOps ==
    {"CreateListenerPoller", "AddListenerPoller", "RemoveListener",
     "DestroyListenerPoller", "ReadListenerQueue"}

CallbackOps ==
    {"AddListenerCallback", "RemoveListener", "DestroyListenerPoller",
     "WaitForListenerQueue"}

Workloads ==
    { [name |-> "value",
       sources |-> {Source("none", {6}), Source("veto", {7})},
       flags |-> {{6}, {6, 7}}, kinds |-> {"value"}, infos |-> {1},
       handles |-> HandleLists, calls |-> MaxNotify, ops |-> PollerOps,
       callback |-> "return"],
      [name |-> "infos",
       sources |-> {Source("none", {1}), Source("keepFirst", {3})},
       flags |-> {{}, {1}, {3}}, kinds |-> {"conn", "topic"},
       infos |-> {0, MaxInfos},
       handles |-> HandleLists, calls |-> MaxNotify - 1, ops |-> PollerOps,
       callback |-> "return"],
      [name |-> "log",
       sources |-> {Source("none", {8}), Source("keep", {16})},
       flags |-> {{}, {8}, {16}}, kinds |-> {"log"}, infos |-> {1},
       handles |-> {<<>>}, calls |-> MaxNotify - 1, ops |-> PollerOps,
       callback |-> "return"],
      [name |-> "zero",
       sources |-> {Source("none", {6})},
       flags |-> {{}, {6}}, kinds |-> {"value"}, infos |-> {1},
       handles |-> HandleLists, calls |-> MaxNotify,
       ops |-> {"CreateListenerPoller", "AddListenerPoller"},
       callback |-> "return"],
      [name |-> "dispatch",
       sources |-> {Source("none", {6})},
       flags |-> {{6}}, kinds |-> {"value"}, infos |-> {1},
       handles |-> {<<>>}, calls |-> MaxNotify - 1, ops |-> CallbackOps,
       callback |-> "return"],
      [name |-> "order",
       sources |-> {Source("none", {3})},
       flags |-> {{3}}, kinds |-> {"topic"}, infos |-> {MaxInfos},
       handles |-> {<<>>}, calls |-> MaxNotify - 1,
       ops |-> {"AddListenerCallback", "RemoveListener"},
       callback |-> "return"],
      [name |-> "reenter",
       sources |-> {Source("none", {6})},
       flags |-> {{6}}, kinds |-> {"value"}, infos |-> {1},
       handles |-> {<<>>}, calls |-> MaxNotify - 1, ops |-> CallbackOps,
       callback |-> "remove"],
      [name |-> "mixed",
       sources |-> {Source("none", {6}), Source("none", {8})},
       flags |-> {{6}}, kinds |-> {"value"}, infos |-> {1},
       handles |-> HandleLists, calls |-> MaxNotify - 1,
       ops |-> {"CreateListenerPoller", "AddListenerPoller"},
       callback |-> "return"] }

VARIABLES
    workload,          \* the callers' input universe of this run
    m_listeners,       \* handle -> [poller, eventMask, sources]
    m_pollers,         \* handle -> [queue, handle]
    nextListener,      \* next listener handle the handle table gives out
    nextPoller,        \* next poller handle the handle table gives out
    m_connListeners,
    m_topicListeners,
    m_valueListeners,
    m_logListeners,
    m_thread,          \* the dispatch thread object (SafeThreadOwner<Thread>)
    main,              \* Thread::Main's position and locals
    m_mutex,           \* who holds the facade's mutex between two actions
    waiting,           \* the caller inside WaitForListenerQueue, if any
    notifyCalls,       \* number of Notify calls made so far
    pending,           \* poller -> the events Notify calls left for it that
                       \* no drain has returned yet
    delivered,         \* the events the dispatch thread has entered a
                       \* callback for, each with the callback's listener
    last               \* the last facade call: what a Notify call signalled,
                       \* kept and vetoed, what a removal or a wait returned

vars == <<workload, m_listeners, m_pollers, nextListener, nextPoller,
          m_connListeners, m_topicListeners, m_valueListeners,
          m_logListeners, m_thread, main, m_mutex, waiting, notifyCalls,
          pending, delivered, last>>

indices == <<m_connListeners, m_topicListeners, m_valueListeners,
             m_logListeners>>

\* what a facade method that returns at once leaves alone besides the tables
others == <<workload, main, m_mutex, waiting, delivered>>

\* m_thread before Start: GetThread() yields no thread
NoThread ==
    [started |-> FALSE, m_poller |-> InvalidHandle, m_callbacks |-> {},
     m_waitQueueWakeup |-> FALSE, m_waitQueueWaiter |-> FALSE]

\* Main blocked in WaitForObjects, with no locals live
MainWaiting ==
    [pc |-> "wait", signaled |-> {}, events |-> <<>>, i |-> 0,
     callback |-> InvalidHandle]

NotWaiting == [pc |-> "idle", timeout |-> "none"]

OtherCall == [op |-> "other"]

Init ==
    /\ workload \in Workloads
    /\ m_listeners = <<>>
    /\ m_pollers = <<>>
    /\ nextListener = 1
    /\ nextPoller = 1
    /\ m_connListeners = <<>>
    /\ m_topicListeners = <<>>
    /\ m_valueListeners = <<>>
    /\ m_logListeners = <<>>
    /\ m_thread = NoThread
    /\ main = MainWaiting
    /\ m_mutex = "free"
    /\ waiting = NotWaiting
    /\ notifyCalls = 0
    /\ pending = [p \in Pollers |-> <<>>]
    /\ delivered = <<>>
    /\ last = OtherCall

\* std::scoped_lock lock{m_mutex}
Lock == m_mutex = "free"

Calls(op) == op \in workload.ops

\* ------------------------------------------------------- handle tables
\* m_listeners.Get(handle) / m_pollers.Get(handle): absent for a stale handle
LiveListener(h) == h \in DOMAIN m_listeners
LivePoller(p) == p \in DOMAIN m_pollers

\* Without leaving the entry in the table
WithoutNothing(table, h) == table

Without(table, h) == [x \in DOMAIN table \ {h} |-> table[x]]

\* a category index maps each member to the number of entries it has
Members(index) == DOMAIN index

\* Add appending an entry whether or not the member is present
IndexPushBack(index, h) ==
    IF h \in DOMAIN index
    THEN [index EXCEPT ![h] = @ + 1]
    ELSE index @@ (h :> 1)

\* Add of a back-reference: a member already present is not added again
IndexAdd(index, h) ==
    IF h \in DOMAIN index THEN index ELSE index @@ (h :> 1)

\* Remove of a back-reference
IndexRemove(index, h) == [x \in DOMAIN index \ {h} |-> index[x]]

\* ----------------------------------------------------------- Activate
\* ActivateListener assigning the mask instead of or-ing it in
ActivateListenerAssign(listener, mask, finishEvent) ==
    [listener EXCEPT !.sources = Append(@, Source(finishEvent, mask)),
                     !.eventMask = mask]

\* sources.emplace_back(finishEvent, mask); eventMask |= mask
ActivateListener(listener, mask, finishEvent) ==
    [listener EXCEPT !.sources = Append(@, Source(finishEvent, mask)),
                     !.eventMask = @ \cup mask]

\* unsigned int deltaMask = mask & (~listener->eventMask)
DeltaMask(listener, mask) == mask \ listener.eventMask

IsConnection(mask) == mask \cap NT_EVENT_CONNECTION # {}
IsTopic(mask) == mask \cap NT_EVENT_TOPIC # {}
IsValue(mask) == mask \cap NT_EVENT_VALUE_ALL # {}
\* the log test without the extended severity bits
IsLogMessageOnly(mask) == mask \cap NT_EVENT_LOGMESSAGE # {}

IsLog(mask) ==
    \/ mask \cap NT_EVENT_LOGMESSAGE # {}
    \/ mask \cap LogLevelBits # {}

Activate(listenerHandle, mask, finishEvent) ==
    /\ Lock
    /\ IF LiveListener(listenerHandle)
       THEN LET listener == m_listeners[listenerHandle]
                deltaMask == DeltaMask(listener, mask)
            IN /\ Len(listener.sources) < MaxSources
               /\ m_listeners' =
                     [m_listeners EXCEPT ![listenerHandle] =
                         ActivateListener(listener, mask, finishEvent)]
               /\ m_connListeners' =
                     IF IsConnection(deltaMask)
                     THEN IndexAdd(m_connListeners, listenerHandle)
                     ELSE m_connListeners
               /\ m_topicListeners' =
                     IF IsTopic(deltaMask)
                     THEN IndexAdd(m_topicListeners, listenerHandle)
                     ELSE m_topicListeners
               /\ m_valueListeners' =
                     IF IsValue(deltaMask)
                     THEN IndexAdd(m_valueListeners, listenerHandle)
                     ELSE m_valueListeners
               /\ m_logListeners' =
                     IF IsLog(deltaMask)
                     THEN IndexAdd(m_logListeners, listenerHandle)
                     ELSE m_logListeners
       ELSE UNCHANGED <<m_listeners, indices>>
    /\ last' = OtherCall
    /\ UNCHANGED <<others, m_pollers, nextListener, nextPoller, m_thread,
                   notifyCalls, pending>>

\* ---------------------------------------------------------- AddListener
\* NewListener with a mask preset to every value event
NewListenerAllEvents(pollerHandle) ==
    [poller |-> pollerHandle, eventMask |-> NT_EVENT_VALUE_ALL,
     sources |-> <<>>]

\* m_listeners.Add(m_inst, poller): a listener bound to the poller, with no
\* source and an empty mask
NewListener(pollerHandle) ==
    [poller |-> pollerHandle, eventMask |-> {}, sources |-> <<>>]

\* DoAddListener without the lookup of the poller
DoAddListenerUnchecked(pollers, pollerHandle) == nextListener

\* DoAddListener, given the poller table: the handle it returns
DoAddListener(pollers, pollerHandle) ==
    IF pollerHandle \in DOMAIN pollers THEN nextListener ELSE InvalidHandle

\* the listener table after DoAddListener returned listener
Added(listener, pollerHandle) ==
    IF listener # InvalidHandle
    THEN /\ m_listeners' = m_listeners @@ (listener :> NewListener(pollerHandle))
         /\ nextListener' = nextListener + 1
    ELSE UNCHANGED <<m_listeners, nextListener>>

AddListenerPoller(pollerHandle) ==
    /\ Lock
    /\ Calls("AddListenerPoller")
    /\ LET listener == DoAddListener(m_pollers, pollerHandle)
       IN /\ listener <= MaxListeners
          /\ Added(listener, pollerHandle)
    /\ last' = OtherCall
    /\ UNCHANGED <<others, m_pollers, nextPoller, indices, m_thread,
                   notifyCalls, pending>>

\* m_pollers.Add(m_inst)
NewPoller == [queue |-> <<>>, handle |-> FALSE]

\* StartThread leaving m_thread empty, so that !m_thread stays true
StartThreadUnmarked(pollerHandle) ==
    [NoThread EXCEPT !.m_poller = pollerHandle]

\* m_thread.Start(poller): a thread bound to the poller, waiting
StartThread(pollerHandle) ==
    [NoThread EXCEPT !.started = TRUE, !.m_poller = pollerHandle]

AddListenerCallback ==
    /\ Lock
    /\ Calls("AddListenerCallback")
    /\ LET start == ~m_thread.started
           thr == IF start THEN StartThread(nextPoller) ELSE m_thread
           pollers == IF start THEN m_pollers @@ (nextPoller :> NewPoller)
                      ELSE m_pollers
           listener == DoAddListener(pollers, thr.m_poller)
       IN /\ start => nextPoller <= MaxPollers
          /\ listener <= MaxListeners
          /\ m_pollers' = pollers
          /\ nextPoller' = IF start THEN nextPoller + 1 ELSE nextPoller
          /\ Added(listener, thr.m_poller)
          /\ m_thread' =
                IF listener # InvalidHandle
                THEN [thr EXCEPT !.m_callbacks = @ \cup {listener}]
                ELSE thr
    /\ last' = OtherCall
    /\ UNCHANGED <<others, indices, notifyCalls, pending>>

\* --------------------------------------------------- CreateListenerPoller
CreateListenerPoller ==
    /\ Lock
    /\ Calls("CreateListenerPoller")
    /\ nextPoller <= MaxPollers
    /\ m_pollers' = m_pollers @@ (nextPoller :> NewPoller)
    /\ nextPoller' = nextPoller + 1
    /\ last' = OtherCall
    /\ UNCHANGED <<others, m_listeners, nextListener, indices, m_thread,
                   notifyCalls, pending>>

\* ------------------------------------------------------------- Notify
\* The Event a Notify call constructs in place: the listener, the flags and
\* the payload, which is named by the call that carries it and its position
\* in the call's payload list.
NewEvent(h, flags, kind, call, item) ==
    [listener |-> h, flags |-> flags, kind |-> kind, call |-> call,
     item |-> item]

\* PopBack taking the oldest event instead
PopFront(queue) == SubSeq(queue, 2, Len(queue))

\* queue.pop_back()
PopBack(queue) == SubSeq(queue, 1, Len(queue) - 1)

\* EmplaceEvent with the event put at the front of the queue
EmplaceEventFront(acc, source, event, consult) ==
    LET pushed == <<event>> \o acc.queue
    IN IF /\ consult
          /\ source.finishEvent # "none"
          /\ ~FinishResult(source.finishEvent, source.mask, pushed[1])
       THEN [acc EXCEPT !.queue = Tail(pushed), !.vetoed = @ + 1]
       ELSE [acc EXCEPT !.queue = pushed, !.count = @ + 1,
                        !.kept = Append(@, event)]

\* One emplace_back, with the finish-predicate consulted when the overload
\* does so: acc is [queue, count, vetoed, kept], kept being the events the
\* call left in the queue.
EmplaceEvent(acc, source, event, consult) ==
    LET pushed == Append(acc.queue, event)
    IN IF /\ consult
          /\ source.finishEvent # "none"
          /\ ~FinishResult(source.finishEvent, source.mask, pushed[Len(pushed)])
       THEN [acc EXCEPT !.queue = PopBack(pushed), !.vetoed = @ + 1]
       ELSE [acc EXCEPT !.queue = pushed, !.count = @ + 1,
                        !.kept = Append(@, event)]

\* for (auto&& info : infos): items item..n of the payload list
RECURSIVE InfoLoop(_, _, _, _, _, _)
InfoLoop(acc, source, event, item, n, consult) ==
    IF item > n
    THEN acc
    ELSE InfoLoop(EmplaceEvent(acc, source, [event EXCEPT !.item = item],
                               consult),
                  source, event, item + 1, n, consult)

\* if ((flags & mask) != 0)
SourceMatches(source, flags) == flags \cap source.mask # {}

\* for (auto&& [finishEvent, mask] : listener.sources)
RECURSIVE SourceLoop(_, _, _, _, _)
SourceLoop(acc, sources, event, n, consult) ==
    IF sources = <<>>
    THEN acc
    ELSE LET source == Head(sources)
         IN SourceLoop(IF SourceMatches(source, event.flags)
                       THEN InfoLoop(acc, source, event, 1, n, consult)
                       ELSE acc,
                       Tail(sources), event, n, consult)

\* The state a Notify call works on: the two tables, and per listener the
\* number of times the call set its wait handles, and of events it left in
\* the queue and vetoed.
NotifyStart ==
    [listeners |-> m_listeners, pollers |-> m_pollers, pending |-> pending,
     signals |-> [h \in Listeners |-> 0],
     kept |-> [h \in Listeners |-> 0],
     vetoed |-> [h \in Listeners |-> 0]]

\* listener.handle.Set(); listener.poller->handle.Set();
SetHandles(w, h) ==
    [w EXCEPT !.pollers[w.listeners[h].poller].handle = TRUE,
              !.signals[h] = @ + 1]

RunSources(w, h, flags, kind, call, n, consult) ==
    SourceLoop([queue |-> w.pollers[w.listeners[h].poller].queue,
                count |-> 0, vetoed |-> 0, kept |-> <<>>],
               w.listeners[h].sources,
               NewEvent(h, flags, kind, call, 1), n, consult)

StoreQueue(w, h, r) ==
    [w EXCEPT !.pollers[w.listeners[h].poller].queue = r.queue,
              !.pending[w.listeners[h].poller] = @ \o r.kept,
              !.kept[h] = @ + r.count,
              !.vetoed[h] = @ + r.vetoed]

\* if (count > 0) { set the handles }
SignalIfCounted(w, h, r) ==
    IF r.count > 0 THEN SetHandles(StoreQueue(w, h, r), h)
    ELSE StoreQueue(w, h, r)

\* the handles set whatever was appended
SignalAlways(w, h, r) == SetHandles(StoreQueue(w, h, r), h)

\* if ((flags & listener.eventMask) != 0)
ListenerMatches(listener, flags) == flags \cap listener.eventMask # {}

\* doSignal of the connection overload: no predicate, no count
doSignalConnection(w, h, flags, call, n) ==
    IF ListenerMatches(w.listeners[h], flags)
    THEN SignalAlways(w, h, RunSources(w, h, flags, "conn", call, n, FALSE))
    ELSE w

\* doSignal of the topic overload
doSignalTopic(w, h, flags, call, n) ==
    IF ListenerMatches(w.listeners[h], flags)
    THEN SignalIfCounted(w, h, RunSources(w, h, flags, "topic", call, n, TRUE))
    ELSE w

\* doSignal of the value overload: one payload
doSignalValue(w, h, flags, call) ==
    IF ListenerMatches(w.listeners[h], flags)
    THEN SignalIfCounted(w, h, RunSources(w, h, flags, "value", call, 1, TRUE))
    ELSE w

\* the loop body of the log overload: one payload
doSignalLog(w, h, flags, call) ==
    IF ListenerMatches(w.listeners[h], flags)
    THEN SignalIfCounted(w, h, RunSources(w, h, flags, "log", call, 1, TRUE))
    ELSE w

doSignal(kind, w, h, flags, call, n) ==
    CASE kind = "conn" -> doSignalConnection(w, h, flags, call, n)
      [] kind = "topic" -> doSignalTopic(w, h, flags, call, n)
      [] kind = "value" -> doSignalValue(w, h, flags, call)
      [] kind = "log" -> doSignalLog(w, h, flags, call)

\* for (auto handle : handles) if (auto listener = m_listeners.Get(handle))
\* doSignal(*listener); the same loop walks a category index, whose
\* members are listeners of the table.
RECURSIVE SignalEach(_, _, _, _, _, _)
SignalEach(kind, w, targets, flags, call, n) ==
    IF targets = <<>>
    THEN w
    ELSE SignalEach(kind,
                    IF Head(targets) \in DOMAIN w.listeners
                    THEN doSignal(kind, w, Head(targets), flags, call, n)
                    ELSE w,
                    Tail(targets), flags, call, n)

\* the number of entries of an index
RECURSIVE IndexSize(_, _)
IndexSize(index, h) ==
    IF h > MaxListeners
    THEN 0
    ELSE (IF h \in DOMAIN index THEN index[h] ELSE 0)
         + IndexSize(index, h + 1)

\* the orders in which a loop can walk an index, entry by entry
Orders(index) ==
    {s \in [1..IndexSize(index, 1) -> DOMAIN index] :
        \A h \in DOMAIN index :
            Cardinality({i \in DOMAIN s : s[i] = h}) = index[h]}

CategoryIndex(kind) ==
    CASE kind = "conn" -> m_connListeners
      [] kind = "topic" -> m_topicListeners
      [] kind = "value" -> m_valueListeners
      [] kind = "log" -> m_logListeners

\* Targets walking the category index whatever the handles are
TargetsIndexOnly(kind, handles) == Orders(CategoryIndex(kind))

\* if (!handles.empty()) the handles, else the category index
Targets(kind, handles) ==
    IF handles # <<>> THEN {handles} ELSE Orders(CategoryIndex(kind))

\* every bit an event mask can hold
AllEvents ==
    NT_EVENT_CONNECTION \cup NT_EVENT_TOPIC \cup NT_EVENT_VALUE_ALL
        \cup NT_EVENT_LOGMESSAGE \cup LogLevelBits

\* NotifyResult taking flags == 0 for every event instead of returning
NotifyResultZeroIsAny(kind, targets, flags, n) ==
    SignalEach(kind, NotifyStart, targets,
               IF flags = {} THEN AllEvents ELSE flags, notifyCalls + 1, n)

\* What a Notify call leaves, walking its targets in the given order
NotifyResult(kind, targets, flags, n) ==
    IF flags = {}
    THEN NotifyStart
    ELSE SignalEach(kind, NotifyStart, targets, flags, notifyCalls + 1, n)

NotifyCall(w, flags) ==
    [op |-> "Notify", flags |-> flags, signals |-> w.signals,
     kept |-> w.kept, vetoed |-> w.vetoed]

Notify(kind, handles, flags, n) ==
    /\ flags # {} => Lock
    /\ kind \in workload.kinds
    /\ handles \in workload.handles
    /\ notifyCalls < workload.calls
    /\ notifyCalls' = notifyCalls + 1
    /\ \E targets \in Targets(kind, handles) :
          LET w == NotifyResult(kind, targets, flags, n)
          IN /\ m_pollers' = w.pollers
             /\ pending' = w.pending
             /\ last' = NotifyCall(w, flags)
    /\ UNCHANGED <<others, m_listeners, nextListener, nextPoller, indices,
                   m_thread>>

NotifyConnection(handles, flags, n) == Notify("conn", handles, flags, n)
NotifyTopic(handles, flags, n) == Notify("topic", handles, flags, n)
NotifyValue(handles, flags) == Notify("value", handles, flags, 1)
NotifyLog(flags) == Notify("log", <<>>, flags, 1)

\* ---------------------------------------------------- DoRemoveListeners
\* One turn of the loop over handles; r is [listeners, callbacks, conn,
\* topic, value, log, rv].
RemoveOne(r, handle) ==
    IF handle \in DOMAIN r.listeners
    THEN LET listener == r.listeners[handle]
         IN [listeners |-> Without(r.listeners, handle),
             rv |-> Append(r.rv, <<handle, listener.eventMask>>),
             callbacks |->
                 IF m_thread.started /\ m_thread.m_poller = listener.poller
                 THEN r.callbacks \ {handle}
                 ELSE r.callbacks,
             conn |->
                 IF IsConnection(listener.eventMask)
                 THEN IndexRemove(r.conn, handle) ELSE r.conn,
             topic |->
                 IF IsTopic(listener.eventMask)
                 THEN IndexRemove(r.topic, handle) ELSE r.topic,
             value |->
                 IF IsValue(listener.eventMask)
                 THEN IndexRemove(r.value, handle) ELSE r.value,
             log |->
                 IF IsLog(listener.eventMask)
                 THEN IndexRemove(r.log, handle) ELSE r.log]
    ELSE r

RECURSIVE RemoveEach(_, _)
RemoveEach(r, handles) ==
    IF handles = <<>> THEN r
    ELSE RemoveEach(RemoveOne(r, Head(handles)), Tail(handles))

DoRemoveListeners(handles) ==
    RemoveEach([listeners |-> m_listeners, rv |-> <<>>,
                callbacks |-> m_thread.m_callbacks,
                conn |-> m_connListeners, topic |-> m_topicListeners,
                value |-> m_valueListeners, log |-> m_logListeners],
               handles)

\* the tables after DoRemoveListeners returned r
Removed(r) ==
    /\ m_listeners' = r.listeners
    /\ m_thread' = [m_thread EXCEPT !.m_callbacks = r.callbacks]
    /\ m_connListeners' = r.conn
    /\ m_topicListeners' = r.topic
    /\ m_valueListeners' = r.value
    /\ m_logListeners' = r.log

RemoveCall(op, rv) == [op |-> op, ret |-> rv]

\* --------------------------------------------------------- RemoveListener
RemoveListener(listenerHandle) ==
    /\ Lock
    /\ Calls("RemoveListener")
    /\ LET r == DoRemoveListeners(<<listenerHandle>>)
       IN /\ Removed(r)
          /\ last' = RemoveCall("RemoveListener", r.rv)
    /\ UNCHANGED <<others, m_pollers, nextListener, nextPoller, notifyCalls,
                   pending>>

\* -------------------------------------------------- DestroyListenerPoller
\* BoundTo without the test of the listener's poller
RECURSIVE BoundToAll(_, _)
BoundToAll(pollerHandle, h) ==
    IF h > MaxListeners THEN <<>>
    ELSE (IF LiveListener(h) THEN <<h>> ELSE <<>>)
         \o BoundToAll(pollerHandle, h + 1)

\* for (auto&& listener : m_listeners) if (listener->poller == poller.get()):
\* the handles of the listeners bound to the poller, from handle h on
RECURSIVE BoundTo(_, _)
BoundTo(pollerHandle, h) ==
    IF h > MaxListeners THEN <<>>
    ELSE (IF LiveListener(h) /\ m_listeners[h].poller = pollerHandle
          THEN <<h>> ELSE <<>>) \o BoundTo(pollerHandle, h + 1)

\* DestroyResult removing the poller and none of its listeners
DestroyResultPollerOnly(pollerHandle) ==
    [pollers |-> Without(m_pollers, pollerHandle),
     r |-> DoRemoveListeners(<<>>)]

\* What DestroyListenerPoller leaves: the poller table and DoRemoveListeners'
\* result, whose rv it returns
DestroyResult(pollerHandle) ==
    IF LivePoller(pollerHandle)
    THEN [pollers |-> Without(m_pollers, pollerHandle),
          r |-> DoRemoveListeners(BoundTo(pollerHandle, 1))]
    ELSE [pollers |-> m_pollers, r |-> DoRemoveListeners(<<>>)]

DestroyListenerPoller(pollerHandle) ==
    /\ Lock
    /\ Calls("DestroyListenerPoller")
    /\ LET d == DestroyResult(pollerHandle)
       IN /\ m_pollers' = d.pollers
          /\ Removed(d.r)
          /\ last' = RemoveCall("DestroyListenerPoller", d.r.rv)
    /\ pending' = IF LivePoller(pollerHandle)
                  THEN [pending EXCEPT ![pollerHandle] = <<>>]
                  ELSE pending
    /\ UNCHANGED <<others, nextListener, nextPoller, notifyCalls>>

\* ------------------------------------------------------ ReadListenerQueue
\* rv.swap(poller->queue): the vector returned
ReadResult(pollerHandle) ==
    IF LivePoller(pollerHandle) THEN m_pollers[pollerHandle].queue ELSE <<>>

\* SwapQueue copying the queue instead of swapping it out
SwapQueueCopy(poller) == poller

\* rv.swap(poller->queue): the queue left
SwapQueue(poller) == [poller EXCEPT !.queue = <<>>]

\* what is left of the events pending for a poller once a drain returned rv:
\* the rest, when rv is what was pending first
Undrained(events, rv) ==
    IF Len(rv) <= Len(events) /\ SubSeq(events, 1, Len(rv)) = rv
    THEN SubSeq(events, Len(rv) + 1, Len(events))
    ELSE events

\* the poller table after a ReadListenerQueue that returned rv
Drained(pollerHandle, rv) ==
    IF LivePoller(pollerHandle)
    THEN /\ m_pollers' = [m_pollers EXCEPT ![pollerHandle] = SwapQueue(@)]
         /\ pending' = [pending EXCEPT ![pollerHandle] = Undrained(@, rv)]
    ELSE UNCHANGED <<m_pollers, pending>>

ReadListenerQueue(pollerHandle) ==
    /\ Lock
    /\ Calls("ReadListenerQueue")
    /\ Drained(pollerHandle, ReadResult(pollerHandle))
    /\ last' = OtherCall
    /\ UNCHANGED <<others, m_listeners, nextListener, nextPoller, indices,
                   m_thread, notifyCalls>>

\* --------------------------------------------------- WaitForListenerQueue
WaitCall(ret) == [op |-> "WaitForListenerQueue", ret |-> ret]

\* Entry: without a thread the call returns false; with one it sets
\* m_waitQueueWakeup and blocks in WaitForObject with m_mutex still held.
WaitForListenerQueue(timeout) ==
    /\ Lock
    /\ Calls("WaitForListenerQueue")
    /\ IF m_thread.started
       THEN /\ m_thread' = [m_thread EXCEPT !.m_waitQueueWakeup = TRUE]
            /\ waiting' = [pc |-> "blocked", timeout |-> timeout]
            /\ m_mutex' = "waiter"
            /\ last' = OtherCall
       ELSE /\ last' = WaitCall(FALSE)
            /\ UNCHANGED <<m_thread, m_mutex, waiting>>
    /\ UNCHANGED <<delivered, workload, main, m_listeners, m_pollers, nextListener,
                   nextPoller, indices, notifyCalls, pending>>

\* WaitForObject returns on the waiter event (auto-reset): true
WaitSignaled ==
    /\ waiting.pc = "blocked"
    /\ m_thread.m_waitQueueWaiter
    /\ m_thread' = [m_thread EXCEPT !.m_waitQueueWaiter = FALSE]
    /\ waiting' = NotWaiting
    /\ m_mutex' = "free"
    /\ last' = WaitCall(TRUE)
    /\ UNCHANGED <<delivered, workload, main, m_listeners, m_pollers, nextListener,
                   nextPoller, indices, notifyCalls, pending>>

\* WaitForObject returns on the timeout: false
WaitTimedOut ==
    /\ waiting.pc = "blocked"
    /\ waiting.timeout = "finite"
    /\ waiting' = NotWaiting
    /\ m_mutex' = "free"
    /\ last' = WaitCall(FALSE)
    /\ UNCHANGED <<delivered, workload, main, m_listeners, m_pollers, nextListener,
                   nextPoller, indices, m_thread, notifyCalls, pending>>

\* -------------------------------------------------------- Thread::Main
\* WaitForObjects({m_poller, m_stopEvent, m_waitQueueWakeup}) returns the
\* handles that are set and resets them
Signaled ==
    (IF LivePoller(m_thread.m_poller) /\ m_pollers[m_thread.m_poller].handle
     THEN {"poller"} ELSE {})
    \cup (IF m_thread.m_waitQueueWakeup THEN {"wakeup"} ELSE {})

MainWake ==
    /\ m_thread.started
    /\ main.pc = "wait"
    /\ Signaled # {}
    /\ main' = [main EXCEPT !.pc = "read", !.signaled = Signaled]
    /\ m_thread' = [m_thread EXCEPT !.m_waitQueueWakeup = FALSE]
    /\ m_pollers' = IF LivePoller(m_thread.m_poller)
                    THEN [m_pollers EXCEPT ![m_thread.m_poller].handle = FALSE]
                    ELSE m_pollers
    /\ UNCHANGED <<delivered, workload, m_mutex, waiting, m_listeners, nextListener,
                   nextPoller, indices, notifyCalls, pending, last>>

\* auto events = nt::ReadListenerQueue(m_poller); if (events.empty()) continue
MainRead ==
    /\ main.pc = "read"
    /\ Lock
    /\ LET events == ReadResult(m_thread.m_poller)
       IN /\ Drained(m_thread.m_poller, events)
          /\ main' = IF events = <<>>
                     THEN MainWaiting
                     ELSE [main EXCEPT !.pc = "find", !.events = events,
                                       !.i = 1]
    /\ UNCHANGED <<delivered, workload, m_mutex, waiting, m_listeners, nextListener,
                   nextPoller, indices, m_thread, notifyCalls, last>>

\* FindCallback without the lookup: every event has its callback invoked
FindCallbackAny(events, i, callbacks) == i

\* m_callbacks.find(event.listener) from event i on: the first event whose
\* listener has a callback, or past the end
RECURSIVE FindCallback(_, _, _)
FindCallback(events, i, callbacks) ==
    IF i > Len(events) \/ events[i].listener \in callbacks
    THEN i
    ELSE FindCallback(events, i + 1, callbacks)

\* The loop over events under the thread's lock, up to the next callback
\* found (lock.unlock()) or to its end, where the waiter is set if the wake
\* was by m_waitQueueWakeup.
MainFind ==
    /\ main.pc = "find"
    /\ LET i == FindCallback(main.events, main.i, m_thread.m_callbacks)
       IN IF i <= Len(main.events)
          THEN /\ main' = [main EXCEPT !.pc = "call", !.i = i,
                                       !.callback = main.events[i].listener]
               /\ UNCHANGED m_thread
          ELSE /\ main' = MainWaiting
               /\ m_thread' =
                     IF "wakeup" \in main.signaled
                     THEN [m_thread EXCEPT !.m_waitQueueWaiter = TRUE]
                     ELSE m_thread
    /\ UNCHANGED <<delivered, workload, m_mutex, waiting, m_listeners, m_pollers,
                   nextListener, nextPoller, indices, notifyCalls, pending,
                   last>>

\* callback(event) is entered
MainCall ==
    /\ main.pc = "call"
    /\ main' = [main EXCEPT !.pc = "incb"]
    /\ delivered' = Append(delivered, [event |-> main.events[main.i],
                                       callback |-> main.callback])
    /\ UNCHANGED <<workload, m_mutex, waiting, m_listeners, m_pollers,
                   nextListener, nextPoller, indices, m_thread, notifyCalls,
                   pending, last>>

\* callback(event), run by the dispatch thread with no lock held, calls
\* RemoveListener on its own listener
CallbackRemove ==
    /\ main.pc = "incb"
    /\ workload.callback = "remove"
    /\ Lock
    /\ LET r == DoRemoveListeners(<<main.callback>>)
       IN /\ Removed(r)
          /\ last' = RemoveCall("RemoveListener", r.rv)
    /\ main' = [main EXCEPT !.pc = "ret"]
    /\ UNCHANGED <<delivered, workload, m_mutex, waiting, m_pollers, nextListener,
                   nextPoller, notifyCalls, pending>>

\* callback(event) returns; lock.lock()
MainReturn ==
    /\ main.pc = (IF workload.callback = "return" THEN "incb" ELSE "ret")
    /\ main' = [main EXCEPT !.pc = "find", !.i = @ + 1,
                            !.callback = InvalidHandle]
    /\ UNCHANGED <<delivered, workload, m_mutex, waiting, m_listeners, m_pollers,
                   nextListener, nextPoller, indices, m_thread, notifyCalls,
                   pending, last>>

\* ------------------------------------------------------- specification
Timeouts == {"none", "finite"}

Next ==
    \/ \E h \in Listeners, source \in workload.sources :
          Activate(h, source.mask, source.finishEvent)
    \/ \E p \in Pollers : AddListenerPoller(p)
    \/ AddListenerCallback
    \/ CreateListenerPoller
    \/ \E handles \in HandleLists, flags \in workload.flags,
          n \in workload.infos : NotifyConnection(handles, flags, n)
    \/ \E handles \in HandleLists, flags \in workload.flags,
          n \in workload.infos : NotifyTopic(handles, flags, n)
    \/ \E handles \in HandleLists, flags \in workload.flags :
          NotifyValue(handles, flags)
    \/ \E flags \in workload.flags : NotifyLog(flags)
    \/ \E h \in Listeners : RemoveListener(h)
    \/ \E p \in Pollers : DestroyListenerPoller(p)
    \/ \E p \in Pollers : ReadListenerQueue(p)
    \/ \E timeout \in Timeouts : WaitForListenerQueue(timeout)
    \/ WaitSignaled
    \/ WaitTimedOut
    \/ MainWake
    \/ MainRead
    \/ MainFind
    \/ MainCall
    \/ CallbackRemove
    \/ MainReturn

Spec == Init /\ [][Next]_vars


\* The dispatch thread is scheduled, callbacks return, the thread's queue
\* read and a callback that calls the facade get the mutex if it is free
\* again and again, and a blocked WaitForObject returns once its event is
\* set.
FairSpec ==
    /\ Spec
    /\ WF_vars(MainWake)
    /\ SF_vars(MainRead)
    /\ WF_vars(MainFind)
    /\ WF_vars(MainCall)
    /\ SF_vars(CallbackRemove)
    /\ WF_vars(MainReturn)
    /\ WF_vars(WaitSignaled)

\* ------------------------------------------------------------ properties
\* the events of a queue that are tagged with listener h, in queue order
EventsFor(queue, h) ==
    LET Tagged(e) == e.listener = h
    IN SelectSeq(queue, Tagged)

\* the events of a queue that Notify call number c appended
EventsOf(queue, c) ==
    LET ByCall(e) == e.call = c
    IN SelectSeq(queue, ByCall)

QueueOf(pollers, listener) == pollers[listener.poller].queue

NoPredicate(listener) ==
    \A i \in DOMAIN listener.sources : listener.sources[i].finishEvent = "none"

IsPrefix(s, t) == Len(s) <= Len(t) /\ SubSeq(t, 1, Len(s)) = s

\* a step of some Notify call
NotifyStep == notifyCalls' = notifyCalls + 1

\* the number of times a Notify call with these inputs runs doSignal on h
Occurrences(h, kind, handles, flags) ==
    IF flags = {} THEN 0
    ELSE IF handles # <<>>
         THEN Cardinality({i \in DOMAIN handles : handles[i] = h})
         ELSE IF h \in Members(CategoryIndex(kind)) THEN 1 ELSE 0

MatchingSources(listener, flags) ==
    Cardinality({i \in DOMAIN listener.sources :
                    flags \cap listener.sources[i].mask # {}})

PayloadItems(kind, n) == IF kind \in {"conn", "topic"} THEN n ELSE 1

\* the events a Notify call with these inputs owes a predicate-free listener
OwedEvents(h, kind, handles, flags, n) ==
    LET items == PayloadItems(kind, n)
        k == Occurrences(h, kind, handles, flags)
               * MatchingSources(m_listeners[h], flags) * items
    IN [i \in 1..k |->
           NewEvent(h, flags, kind, notifyCalls + 1, ((i - 1) % items) + 1)]

\* C1 as stated: every Notify call whose flags intersect the mask of a live
\* listener without finish-predicates appends exactly one event tagged with
\* that listener to its poller's queue, after the events already there.
C1_OneEventPerCall ==
    [][NotifyStep =>
        \A kind \in workload.kinds, handles \in workload.handles,
           flags \in workload.flags, n \in workload.infos :
            Notify(kind, handles, flags, n) =>
                \A h \in DOMAIN m_listeners :
                    (NoPredicate(m_listeners[h])
                     /\ ListenerMatches(m_listeners[h], flags)) =>
                        \E e \in {NewEvent(h, flags, kind, notifyCalls + 1, i) :
                                    i \in 0..MaxInfos} :
                            EventsFor(QueueOf(m_pollers', m_listeners[h]), h)
                              = Append(EventsFor(QueueOf(m_pollers,
                                                         m_listeners[h]), h),
                                       e)]_vars

\* C1 amended: a Notify call appends for a live listener L without
\* finish-predicates, after L's events already queued and in the order they
\* are made, one event per time the call targets L (once by a broadcast
\* whose category index holds L, once per occurrence of L's handle in an
\* explicit list, never when flags are 0), per source of L whose mask the
\* flags intersect, per payload item; so N calls that each target L once
\* with one matching source and one payload item leave exactly N events, in
\* call order.
C1_EventsPerCall ==
    [][NotifyStep =>
        \A kind \in workload.kinds, handles \in workload.handles,
           flags \in workload.flags, n \in workload.infos :
            Notify(kind, handles, flags, n) =>
                \A h \in DOMAIN m_listeners :
                    NoPredicate(m_listeners[h]) =>
                        EventsFor(QueueOf(m_pollers', m_listeners[h]), h)
                          = EventsFor(QueueOf(m_pollers, m_listeners[h]), h)
                              \o OwedEvents(h, kind, handles, flags, n)]_vars

\* two calls each left an event for a predicate-free listener, in call order
C1_Witness ==
    \E h \in DOMAIN m_listeners :
        /\ NoPredicate(m_listeners[h])
        /\ m_listeners[h].sources # <<>>
        /\ LET q == EventsFor(QueueOf(m_pollers, m_listeners[h]), h)
           IN \E i, j \in DOMAIN q :
                 i < j /\ q[i].call = 1 /\ q[j].call = 2

\* C2 as stated: WaitForListenerQueue returns false without blocking when
\* there is no dispatch thread; otherwise a call without time limit returns
\* true once the dispatch thread has taken its wake-up.
C2_WaitReturnsTrue ==
    /\ [](last.op = "WaitForListenerQueue" /\ ~m_thread.started
            => last.ret = FALSE)
    /\ (waiting.pc = "blocked" /\ waiting.timeout = "none")
          ~> (waiting.pc = "idle" /\ last = WaitCall(TRUE))

\* C3 as stated: no callback invocation for a listener begins after that
\* listener has been removed.
C3_NoCallAfterRemove ==
    [][(main.pc = "call" /\ main'.pc = "incb") => LiveListener(main.callback)]_vars

\* C3 amended: the dispatch thread looks a callback up only for a listener
\* that is in the table and in m_callbacks at that moment, and a removed
\* listener has no entry in m_callbacks; the invocation that follows a
\* lookup runs with the lock released and may begin after the removal.
C3_LookupOfLiveListener ==
    [][/\ m_thread'.m_callbacks \subseteq DOMAIN m_listeners'
       /\ (main.pc = "find" /\ main'.pc = "call") =>
              /\ LiveListener(main'.callback)
              /\ main'.callback \in m_thread.m_callbacks]_vars

\* a callback is running for a listener removed since its lookup
C3_Witness ==
    /\ main.pc = "incb"
    /\ ~LiveListener(main.callback)
    /\ main.callback \notin m_thread.m_callbacks

\* C4 as stated: in every Notify overload a listener's handles are set only
\* if at least one event appended for it by the call survived, and then
\* once per listener per call; a call leaving it no event sets nothing.
C4_SignalIffSurvived ==
    last.op = "Notify" =>
        \A h \in Listeners :
            /\ last.kept[h] = 0 => last.signals[h] = 0
            /\ last.kept[h] > 0 => last.signals[h] = 1

\* C5: a Notify call leaves the events already queued in place and in
\* order; of the events it makes for a listener exactly those no
\* finish-predicate vetoed are in the queue afterwards; a listener all of
\* whose events were vetoed is not signalled.
C5_VetoRemovesOnlyNewEvent ==
    [][NotifyStep =>
        /\ \A p \in DOMAIN m_pollers :
              IsPrefix(m_pollers[p].queue, m_pollers'[p].queue)
        /\ \A h \in DOMAIN m_listeners :
              /\ Len(EventsOf(EventsFor(QueueOf(m_pollers', m_listeners[h]), h),
                              notifyCalls'))
                   = last'.kept[h]
              /\ (last'.vetoed[h] > 0 /\ last'.kept[h] = 0)
                    => last'.signals[h] = 0]_vars

\* a call had its only event for a listener vetoed, behind earlier events
C5_Witness ==
    /\ last.op = "Notify"
    /\ \E h \in DOMAIN m_listeners :
          /\ last.vetoed[h] > 0
          /\ last.kept[h] = 0
          /\ last.signals[h] = 0
          /\ QueueOf(m_pollers, m_listeners[h]) # <<>>

\* the number of events the last Notify call left for the listeners bound
\* to poller p, from handle h on
RECURSIVE KeptFor(_, _)
KeptFor(p, h) ==
    IF h > MaxListeners THEN 0
    ELSE (IF LiveListener(h) /\ m_listeners[h].poller = p
          THEN last.kept[h] ELSE 0) + KeptFor(p, h + 1)

\* C6: the queue of a live poller holds exactly the events appended to it
\* and not yet returned by a drain, in order; a drain returns all of them
\* and leaves the queue empty; the events one Notify call appended to a
\* poller are in its queue together or not at all.
C6_DrainTakesAll ==
    [][/\ \A p \in DOMAIN m_pollers' : m_pollers'[p].queue = pending'[p]
       /\ \A p \in DOMAIN m_pollers \cap DOMAIN m_pollers' :
             Len(pending'[p]) < Len(pending[p]) =>
                 /\ m_pollers'[p].queue = <<>>
                 /\ pending'[p] = <<>>
       /\ last.op = "Notify" =>
             \A p \in DOMAIN m_pollers :
                 Len(EventsOf(m_pollers[p].queue, notifyCalls))
                    \in {0, KeptFor(p, 1)}]_vars

\* the dispatch thread's drain took both events of one call, leaving none
C6_Witness ==
    /\ main.pc = "find"
    /\ Len(main.events) >= 2
    /\ \A i \in DOMAIN main.events : main.events[i].call = main.events[1].call
    /\ LivePoller(m_thread.m_poller)
    /\ m_pollers[m_thread.m_poller].queue = <<>>

\* C7: DestroyListenerPoller on a live poller removes from the table
\* exactly the listeners bound to it, leaves every other listener as it
\* was, and returns one (handle, mask) pair for each listener removed.
C7_DestroyCascade ==
    [][\A p \in DOMAIN m_pollers \ DOMAIN m_pollers' :
          LET bound == {h \in DOMAIN m_listeners : m_listeners[h].poller = p}
          IN /\ DOMAIN m_listeners' = DOMAIN m_listeners \ bound
             /\ \A h \in DOMAIN m_listeners' : m_listeners'[h] = m_listeners[h]
             /\ last'.op = "DestroyListenerPoller"
             /\ Len(last'.ret) = Cardinality(bound)
             /\ {last'.ret[i] : i \in DOMAIN last'.ret}
                   = {<<h, m_listeners[h].eventMask>> : h \in bound}]_vars

\* a poller was destroyed with an activated listener, another one survives
C7_Witness ==
    /\ last.op = "DestroyListenerPoller"
    /\ \E i \in DOMAIN last.ret : last.ret[i][2] # {}
    /\ \E h \in DOMAIN m_listeners : m_listeners[h].sources # <<>>

\* C8: a Notify call appends events only for listeners that are in the
\* table, and a handle once removed never returns to the table, so no
\* Notify after RemoveListener(L) appends an event tagged with L;
\* RemoveListener(L) returns the one pair (L, mask) and takes L out of the
\* table when L is live, and returns the empty list when L is gone.
C8_RemovedListenerSilent ==
    [][/\ NotifyStep =>
             \A p \in DOMAIN m_pollers' :
                 \A i \in DOMAIN m_pollers'[p].queue :
                     m_pollers'[p].queue[i].call = notifyCalls'
                        => LiveListener(m_pollers'[p].queue[i].listener)
       /\ \A h \in Listeners :
             (last'.op = "RemoveListener" /\ RemoveListener(h)) =>
                 IF LiveListener(h)
                 THEN /\ last'.ret = <<<<h, m_listeners[h].eventMask>>>>
                      /\ h \notin DOMAIN m_listeners'
                 ELSE /\ last'.ret = <<>>
                      /\ m_listeners' = m_listeners
       /\ \A h \in DOMAIN m_listeners' :
             h < nextListener => h \in DOMAIN m_listeners]_vars

\* a removed listener has an event of call 1 queued, and call 2, whose flags
\* include those of call 1, left an event behind it but none for that listener
C8_Witness ==
    \E p \in DOMAIN m_pollers :
        LET q == m_pollers[p].queue
        IN \E i, j \in DOMAIN q :
              /\ i < j
              /\ q[i].call = 1
              /\ q[j].call = 2
              /\ q[i].flags \subseteq q[j].flags
              /\ ~LiveListener(q[i].listener)
              /\ EventsOf(EventsFor(q, q[i].listener), 2) = <<>>

\* C9: the eventMask of every listener in the table is the union of the
\* masks of its sources.
C9_MaskIsUnionOfSources ==
    \A h \in DOMAIN m_listeners :
        m_listeners[h].eventMask
           = UNION {m_listeners[h].sources[i].mask :
                       i \in DOMAIN m_listeners[h].sources}

\* a listener activated twice with different masks
C9_Witness ==
    \E h \in DOMAIN m_listeners :
        /\ Len(m_listeners[h].sources) = 2
        /\ m_listeners[h].sources[1].mask # m_listeners[h].sources[2].mask

\* C10 as stated: every listener in the table has at least one source.
C10_AtLeastOneSource ==
    \A h \in DOMAIN m_listeners : Len(m_listeners[h].sources) >= 1

\* C10 amended: a listener is in the table without a source from
\* AddListener until its first Activate, and then has an empty mask, is in
\* no category index and has no event queued; once it has a source it has
\* at least one for as long as it is in the table.
C10_SourcelessUntilActivate ==
    [][\A h \in DOMAIN m_listeners' :
          LET listener == m_listeners'[h]
          IN /\ listener.sources = <<>> =>
                   /\ listener.eventMask = {}
                   /\ h \notin Members(m_connListeners')
                                  \cup Members(m_topicListeners')
                                  \cup Members(m_valueListeners')
                                  \cup Members(m_logListeners')
                   /\ EventsFor(QueueOf(m_pollers', listener), h) = <<>>
             /\ (h \in DOMAIN m_listeners /\ m_listeners[h].sources # <<>>)
                   => listener.sources # <<>>]_vars

\* a Notify call has just passed over a listener that has no source yet
C10_Witness ==
    /\ last.op = "Notify"
    /\ \E h \in DOMAIN m_listeners : m_listeners[h].sources = <<>>
    /\ \E h \in DOMAIN m_listeners : last.kept[h] > 0

\* C11: a Notify call with flags == 0, whatever its overload, target
\* handles and payload, leaves every poller's queue and wait handle as
\* they were and sets no listener's handle.
C11_ZeroFlagsNoEffect ==
    [][(NotifyStep /\ last'.flags = {}) =>
          /\ m_pollers' = m_pollers
          /\ \A h \in Listeners : last'.signals[h] = 0]_vars

\* a call with flags == 0 named a listener whose mask is not empty and
\* whose poller has events queued
C11_Witness ==
    /\ last.op = "Notify"
    /\ last.flags = {}
    /\ \E h \in DOMAIN m_listeners :
          /\ m_listeners[h].eventMask # {}
          /\ QueueOf(m_pollers, m_listeners[h]) # <<>>

\* the listener table, the poller table with its queues, the category
\* indices and the callback map
Tables ==
    <<m_listeners, m_pollers, m_connListeners, m_topicListeners,
      m_valueListeners, m_logListeners, m_thread.m_callbacks>>

\* the handles of a list that are in the listener table
LiveOnly(handles) == SelectSeq(handles, LiveListener)

\* C12: a call given a stale or unknown handle changes none of the listener
\* table, the poller table, the queues, the category indices and the
\* callback map: Activate does nothing, AddListener(poller) returns the
\* invalid handle, ReadListenerQueue, RemoveListener and
\* DestroyListenerPoller return the empty list, and Notify treats a handle
\* list as it treats the list of its live handles, doing nothing when none
\* is live.
C12_StaleHandleNoEffect ==
    [][/\ \A h \in Listeners \ DOMAIN m_listeners :
             /\ \A source \in workload.sources :
                   Activate(h, source.mask, source.finishEvent)
                      => Tables' = Tables
             /\ RemoveListener(h) => (Tables' = Tables /\ last'.ret = <<>>)
       /\ \A p \in Pollers \ DOMAIN m_pollers :
             /\ AddListenerPoller(p) =>
                   /\ Tables' = Tables
                   /\ DoAddListener(m_pollers, p) = InvalidHandle
             /\ ReadListenerQueue(p) =>
                   (Tables' = Tables /\ ReadResult(p) = <<>>)
             /\ DestroyListenerPoller(p) =>
                   (Tables' = Tables /\ last'.ret = <<>>)
       /\ NotifyStep =>
             \A kind \in workload.kinds, handles \in workload.handles,
                n \in workload.infos :
                 (handles # <<>> /\ LiveOnly(handles) # handles
                  /\ Notify(kind, handles, last'.flags, n)) =>
                     /\ <<m_listeners, indices, m_thread>>'
                           = <<m_listeners, indices, m_thread>>
                     /\ IF LiveOnly(handles) = <<>>
                        THEN /\ m_pollers' = m_pollers
                             /\ \A h \in Listeners : last'.signals[h] = 0
                        ELSE LET w == NotifyResult(kind, LiveOnly(handles),
                                                   last'.flags, n)
                             IN /\ m_pollers' = w.pollers
                                /\ last'.signals = w.signals]_vars

\* a RemoveListener returned the empty list, which it does for a stale
\* handle only, while a listener has been removed and another one is in the
\* table with events queued
C12_Witness ==
    /\ last.op = "RemoveListener"
    /\ last.ret = <<>>
    /\ \E h \in 1..(nextListener - 1) : ~LiveListener(h)
    /\ \E h \in DOMAIN m_listeners :
          QueueOf(m_pollers, m_listeners[h]) # <<>>

\* C13 as stated: a callback the dispatch thread has entered completes,
\* also when it calls RemoveListener on its own listener, and the dispatch
\* loop goes on to the next event.
C13_CallbackCompletes ==
    (main.pc = "incb") ~> (main.pc = "find")

\* C14: the dispatch thread, once started, stays started and keeps its
\* poller; AddListener(callback) starts it and creates its poller only when
\* there is no thread yet, and creates no poller otherwise; the listener it
\* returns is new, bound to the thread's poller and a key of the callback
\* map, and it returns the invalid handle only when it registered nothing;
\* every key of the callback map is a listener bound to the thread's poller.
C14_ThreadStartedOnce ==
    [][/\ m_thread.started =>
             /\ m_thread'.started
             /\ m_thread'.m_poller = m_thread.m_poller
       /\ \A h \in m_thread'.m_callbacks :
             /\ h \in DOMAIN m_listeners'
             /\ m_listeners'[h].poller = m_thread'.m_poller
       /\ AddListenerCallback =>
             LET listener == DoAddListener(m_pollers', m_thread'.m_poller)
             IN /\ m_thread'.started
                /\ DOMAIN m_pollers' \ DOMAIN m_pollers
                      = IF m_thread.started THEN {} ELSE {m_thread'.m_poller}
                /\ IF listener # InvalidHandle
                   THEN /\ listener \notin DOMAIN m_listeners
                        /\ listener \in DOMAIN m_listeners'
                        /\ m_listeners'[listener].poller = m_thread'.m_poller
                        /\ m_thread'.m_callbacks
                              = m_thread.m_callbacks \cup {listener}
                   ELSE /\ m_listeners' = m_listeners
                        /\ m_thread'.m_callbacks = m_thread.m_callbacks]_vars

\* two AddListener(callback) calls registered two listeners on the one
\* poller made for the thread
C14_Witness ==
    /\ m_thread.started
    /\ Cardinality(m_thread.m_callbacks) = 2
    /\ \A h \in m_thread.m_callbacks :
          m_listeners[h].poller = m_thread.m_poller
    /\ nextPoller = 2

\* the events the dispatch thread has drained and not yet entered a
\* callback for or passed over
RestOfBatch ==
    CASE main.pc \in {"find", "call"} ->
            SubSeq(main.events, main.i, Len(main.events))
      [] main.pc \in {"incb", "ret"} ->
            SubSeq(main.events, main.i + 1, Len(main.events))
      [] OTHER -> <<>>

DeliveredEvents == [k \in DOMAIN delivered |-> delivered[k].event]

ThreadQueue ==
    IF LivePoller(m_thread.m_poller)
    THEN m_pollers[m_thread.m_poller].queue
    ELSE <<>>

\* the events of listener h: those its callback was entered for, then those
\* drained and still to come, then those queued
Stream(h) ==
    EventsFor(DeliveredEvents, h) \o EventsFor(RestOfBatch, h)
        \o EventsFor(ThreadQueue, h)

Undelivered(h) == EventsFor(RestOfBatch, h) \o EventsFor(ThreadQueue, h)

\* the safety half of C15: while a listener stays in the callback map, its
\* stream only grows at the end, and only by a Notify call, so its events
\* reach its callback in the order appended, none twice and none dropped;
\* every callback entered is that of the event's listener
C15_InOrderOnce ==
    [][/\ \A h \in m_thread.m_callbacks \cap m_thread'.m_callbacks :
             /\ IsPrefix(Stream(h), Stream(h)')
             /\ ~NotifyStep => Stream(h)' = Stream(h)
       /\ \A k \in DOMAIN delivered' :
             delivered'[k].event.listener = delivered'[k].callback]_vars

\* C15 as stated: the dispatch thread invokes the callback of a registered
\* listener once for every event appended for it, in the order appended,
\* never twice and never for another listener's event.
C15_CallbackPerEventInOrder ==
    /\ C15_InOrderOnce
    /\ \A h \in Listeners :
          (h \in m_thread.m_callbacks /\ Undelivered(h) # <<>>)
             ~> (h \notin m_thread.m_callbacks \/ Undelivered(h) = <<>>)

\* ------------------------------------------------------------------ C16
\* the listeners in the table whose mask holds a bit of a category
Interested(bits) ==
    {h \in DOMAIN m_listeners : m_listeners[h].eventMask \cap bits # {}}

\* C16: a listener is a member of a category index exactly when it is in
\* the listener table and its eventMask holds a bit of that category (for
\* log: the log-message bit or a bit of the extended severity range).
C16_IndexIffMaskBit ==
    /\ Members(m_connListeners) = Interested(NT_EVENT_CONNECTION)
    /\ Members(m_topicListeners) = Interested(NT_EVENT_TOPIC)
    /\ Members(m_valueListeners) = Interested(NT_EVENT_VALUE_ALL)
    /\ Members(m_logListeners) =
          Interested(NT_EVENT_LOGMESSAGE \cup LogLevelBits)

\* a listener holding only an extended severity bit is in the log index
\* after another listener was removed from the table and the indices
C16_Witness ==
    /\ last.op \in {"RemoveListener", "DestroyListenerPoller"}
    /\ last.ret # <<>>
    /\ \E h \in DOMAIN m_listeners :
          /\ m_listeners[h].eventMask \cap NT_EVENT_LOGMESSAGE = {}
          /\ m_listeners[h].eventMask \cap LogLevelBits # {}
          /\ h \in Members(m_logListeners)
          /\ \E g \in 1..(nextListener - 1) :
                /\ g \notin DOMAIN m_listeners
                /\ g \notin Members(m_logListeners)

\* ------------------------------------------------------------------ C17
\* the listeners a Notify call runs doSignal on
TargetSet(kind, handles) ==
    IF handles # <<>>
    THEN {handles[i] : i \in DOMAIN handles} \cap DOMAIN m_listeners
    ELSE Members(CategoryIndex(kind))

\* the events a step appended to the queue of poller p
AppendedTo(p) ==
    SubSeq(m_pollers'[p].queue, Len(m_pollers[p].queue) + 1,
           Len(m_pollers'[p].queue))

\* every event a Notify call appended to the queue of poller p is for a
\* target listener bound to p whose eventMask the flags intersect, and is
\* tagged with that listener's handle and the call's flags
TaggedForTargets(p, kind, handles, flags) ==
    /\ IsPrefix(m_pollers[p].queue, m_pollers'[p].queue)
    /\ \A i \in DOMAIN AppendedTo(p) :
          LET e == AppendedTo(p)[i]
          IN /\ e.listener \in TargetSet(kind, handles)
             /\ m_listeners[e.listener].poller = p
             /\ flags \cap m_listeners[e.listener].eventMask # {}
             /\ e.flags = flags
             /\ e.call = notifyCalls + 1

\* C17 as stated: a Notify call with non-zero flags appends events only for
\* its target listeners whose eventMask intersects flags, one event per
\* source whose mask intersects flags, each tagged with the listener's
\* handle and the call's flags and appended to the listener's own poller.
C17_OneEventPerMatchingSource ==
    [][NotifyStep =>
        \A kind \in workload.kinds, handles \in workload.handles,
           flags \in workload.flags, n \in workload.infos :
            (flags # {} /\ Notify(kind, handles, flags, n)) =>
                \A p \in DOMAIN m_pollers :
                    /\ TaggedForTargets(p, kind, handles, flags)
                    /\ \A h \in DOMAIN m_listeners :
                          m_listeners[h].poller = p =>
                              Len(EventsFor(AppendedTo(p), h))
                                = IF h \in TargetSet(kind, handles)
                                  THEN MatchingSources(m_listeners[h], flags)
                                  ELSE 0]_vars

\* C17 amended: a Notify call with non-zero flags appends events only for
\* its target listeners whose eventMask intersects flags, each tagged with
\* the listener's handle and the call's flags and appended after the events
\* already in that listener's own poller; for a listener it makes one event
\* per time the call targets it (once by a broadcast, once per occurrence
\* of its handle in an explicit list), per source whose mask intersects
\* flags, per payload item, and the events a finish-predicate vetoed are
\* not in the queue; queues of pollers with no such listener are unchanged.
C17_EventsOnlyForTargets ==
    [][NotifyStep =>
        \A kind \in workload.kinds, handles \in workload.handles,
           flags \in workload.flags, n \in workload.infos :
            (flags # {} /\ Notify(kind, handles, flags, n)) =>
                \A p \in DOMAIN m_pollers :
                    /\ TaggedForTargets(p, kind, handles, flags)
                    /\ \A h \in DOMAIN m_listeners :
                          m_listeners[h].poller = p =>
                              Len(EventsFor(AppendedTo(p), h)) + last'.vetoed[h]
                                = Occurrences(h, kind, handles, flags)
                                    * MatchingSources(m_listeners[h], flags)
                                    * PayloadItems(kind, n)]_vars

\* a value listener and a log listener share a poller, and a value Notify
\* left exactly one event in its queue
C17_Witness ==
    /\ last.op = "Notify"
    /\ last.flags \subseteq NT_EVENT_VALUE_ALL
    /\ \E p \in DOMAIN m_pollers, h, g \in DOMAIN m_listeners :
          /\ m_listeners[h].poller = p
          /\ m_listeners[g].poller = p
          /\ m_listeners[h].eventMask = {6}
          /\ m_listeners[g].eventMask = {8}
          /\ Len(m_pollers[p].queue) = 1
          /\ m_pollers[p].queue[1].listener = h

\* ------------------------------------------------------------------ C18
\* C18 as stated: no thread blocks on a wait primitive while holding the
\* facade mutex; while a caller is blocked inside WaitForListenerQueue the
\* mutex is free for the other facade operations and for the dispatch
\* thread's queue read.
C18_NoWaitUnderMutex ==
    waiting.pc = "blocked" => m_mutex = "free"

\* ------------------------------------------------------------------ C19
Categories == {"conn", "topic", "value", "log"}

\* no index holds a second entry for a listener after the step
SingleEntries ==
    \A kind \in Categories :
        \A h \in Members(CategoryIndex(kind)') : CategoryIndex(kind)'[h] = 1

\* the events a Notify step appended for listener h, those a
\* finish-predicate removed again included
AppendedFor(h) == last'.kept[h] + last'.vetoed[h]

\* C19 as stated: each listener appears at most once in each category
\* index after any sequence of Activate calls, so a broadcast Notify
\* processes each listener at most once and appends exactly one event per
\* matching source, also when the listener acquired bits of one category in
\* separate Activate calls.
C19_OneEventPerSourceOnBroadcast ==
    [][/\ SingleEntries
       /\ NotifyStep =>
            \A kind \in workload.kinds, flags \in workload.flags,
               n \in workload.infos :
                (flags # {} /\ Notify(kind, <<>>, flags, n)) =>
                    \A h \in DOMAIN m_listeners :
                        AppendedFor(h)
                          = IF h \in Members(CategoryIndex(kind))
                            THEN MatchingSources(m_listeners[h], flags)
                            ELSE 0]_vars

\* C19 amended: each listener has at most one entry in each category
\* index after any sequence of Activate calls, so a broadcast Notify runs
\* over each listener of the index once and appends one event per matching
\* source per payload item (one per matching source in the value and log
\* overloads), also when the listener acquired bits of one category in
\* separate Activate calls.
C19_OnceInEachIndex ==
    [][/\ SingleEntries
       /\ NotifyStep =>
            \A kind \in workload.kinds, flags \in workload.flags,
               n \in workload.infos :
                (flags # {} /\ Notify(kind, <<>>, flags, n)) =>
                    \A h \in DOMAIN m_listeners :
                        AppendedFor(h)
                          = IF h \in Members(CategoryIndex(kind))
                            THEN MatchingSources(m_listeners[h], flags)
                                   * PayloadItems(kind, n)
                            ELSE 0]_vars

\* a listener that acquired the log-message bit and then a severity bit in
\* two Activate calls has one entry in the log index, and a broadcast left
\* it one event
C19_Witness ==
    /\ last.op = "Notify"
    /\ \E h \in DOMAIN m_listeners :
          /\ Len(m_listeners[h].sources) = 2
          /\ m_listeners[h].sources[1].mask = NT_EVENT_LOGMESSAGE
          /\ m_listeners[h].sources[2].mask \subseteq LogLevelBits
          /\ h \in Members(m_logListeners)
          /\ m_logListeners[h] = 1
          /\ last.kept[h] = 1
          /\ Len(EventsFor(QueueOf(m_pollers, m_listeners[h]), h)) = 1

\* ------------------------------------------------------------------ C20
\* C20: every listener in the listener table is bound to a poller that is
\* in the poller table, and every key of the dispatch thread's callback map
\* is a listener in the listener table bound to the thread's poller.
C20_NoDanglingReference ==
    /\ \A h \in DOMAIN m_listeners : LivePoller(m_listeners[h].poller)
    /\ \A h \in m_thread.m_callbacks :
          /\ LiveListener(h)
          /\ m_listeners[h].poller = m_thread.m_poller

\* one callback listener was removed, another is still registered on the
\* thread's poller and has an event queued there
C20_Witness ==
    /\ last.op = "RemoveListener"
    /\ last.ret # <<>>
    /\ m_thread.started
    /\ LivePoller(m_thread.m_poller)
    /\ \E h \in m_thread.m_callbacks, g \in 1..(nextListener - 1) :
          /\ ~LiveListener(g)
          /\ g \notin m_thread.m_callbacks
          /\ EventsFor(m_pollers[m_thread.m_poller].queue, h) # <<>>
====
